---- MODULE Spec2Model ----
(***************************************************************************)
(* rubber-docker, levels 00 (fork/exec) and 04 (overlay root).             *)
(*                                                                         *)
(* Each invocation of `rd.py run` is a parent process that forks one      *)
(* child.  The child of level 04 runs contain(): it unshares the mount    *)
(* namespace, makes / private, builds the overlay root, populates         *)
(* proc/sys/dev, pivots into the new root and execs the command.  The     *)
(* parent waits for the child and prints its wait status.                 *)
(*                                                                         *)
(* Several invocations run on the same host and interleave freely; the    *)
(* images directory and the containers directory are shared among them.   *)
(* A path is a sequence of its components.                                 *)
(***************************************************************************)
EXTENDS Integers, Sequences, FiniteSets, TLC

\* Number of invocations of `rd.py run` on the host.
NumRuns == 2

\* Longest archive drawn by the extraction specification.
MaxMembers == 3

Runs == 1..NumRuns

Levels == {0, 4}

\* tarfile member types (tarfile.REGTYPE, DIRTYPE, CHRTYPE, BLKTYPE, FIFOTYPE).
REGTYPE == "REGTYPE"
DIRTYPE == "DIRTYPE"
CHRTYPE == "CHRTYPE"
BLKTYPE == "BLKTYPE"
FIFOTYPE == "FIFOTYPE"
SYMTYPE == "SYMTYPE"

\* A directory entry: a tar member, a device node or a symbolic link.
Entry(n, t, mode, ma, mi, l) ==
    [name |-> n, type |-> t, mode |-> mode, major |-> ma, minor |-> mi, link |-> l]

\* A tar member or a directory; its permission bits are not followed.
Member(n, t) == Entry(n, t, 0, 0, 0, "")

\* A permission mode written as its three octal digits, 0o666 as Octal(6, 6, 6).
Octal(u, g, o) == u * 64 + g * 8 + o

\* The file mode creation masks of the shells that invoke rd.py: none, the
\* default of a login shell, and a restrictive one.
Umasks == { Octal(0, 0, 0), Octal(0, 2, 2), Octal(0, 7, 7) }

\* The bits of a that are not bits of m: a & ~m.
RECURSIVE AndNot(_, _)
AndNot(a, m) ==
    IF a = 0 THEN 0
    ELSE (IF a % 2 = 1 /\ m % 2 = 0 THEN 1 ELSE 0) + 2 * AndNot(a \div 2, m \div 2)

\* --image-name values tried; "ubuntu" is the default of the option.
ImageNames == {"ubuntu", "nosuch"}

\* The members of ubuntu.tar: the mount points, a shell and two device entries.
UbuntuArchive ==
    << Member("dev", DIRTYPE), Member("dev/null", CHRTYPE),
       Member("proc", DIRTYPE), Member("sys", DIRTYPE),
       Member("dev/sda", BLKTYPE), Member("bin/sh", REGTYPE) >>

\* Commands tried; the first element of the Command argument.
Commands == {"/bin/sh", "/no/such/binary"}

\* The name under the root directory that execvp resolves command[0] to.
ExeName(c) == IF c = "/bin/sh" THEN "bin/sh" ELSE "no/such/binary"

\* Executables present on the host, where level 00 execs the command.
HostBin == {"bin/sh"}

\* Exit codes the exec'd program may end with.
ProgramCodes == {0, 2}

\* The file a contained program may create under its root.
DataFile == Member("data", REGTYPE)

\* uuid.uuid4(): a fresh identifier for every invocation.
UUIDS == << "c1", "c2", "c3", "c4" >>

uuid4(r) == UUIDS[r]

\* Defaults of --image-dir and --container-dir.
image_dir == << "workshop", "images" >>
container_dir == << "workshop", "containers" >>

----------------------------------------------------------------------------
\* Paths

\* os.path.join on relative components.
Join(p, q) == p \o q

IsPrefix(p, q) == Len(p) <= Len(q) /\ SubSeq(q, 1, Len(p)) = p

Strip(p, q) == SubSeq(q, Len(p) + 1, Len(q))

\* The directories os.makedirs(p) creates when none of them exists.
Ancestors(p) == { SubSeq(p, 1, k) : k \in 1..Len(p) }

\* _get_image_path: <image_dir>/<image_name>.tar
_get_image_path(image_name) == Join(image_dir, << image_name, ".", "tar" >>)

\* image_root of create_container_root.
ImageRoot(image_name) == Join(image_dir, << image_name, "rootfs" >>)

\* overlay_path of create_container_root.
overlay_path == Join(container_dir, << "overlay" >>)

\* A path that leaves the container id out.
_get_container_path_shared(container_id, base, sub) == Join(base, << sub >>)

\* _get_container_path(container_id, container_dir, *subdir_names)
_get_container_path(container_id, base, sub) ==
    Join(base, << container_id, sub >>)

upper_path(c) == _get_container_path(c, overlay_path, "upper")
work_root(c) == _get_container_path(c, overlay_path, "work")
merged_mount_point(c) == _get_container_path(c, overlay_path, "merged")

----------------------------------------------------------------------------
\* State

VARIABLES
    level,         \* which rd.py the invocation runs: level 00 or level 04
    image_name,    \* --image-name of the invocation
    command,       \* command[0] of the invocation
    container_id,  \* str(uuid.uuid4()) of run
    ppc,           \* where the parent is in run
    cpc,           \* where the child is: in contain, in the exec'd program, exited
    pid,           \* what os.fork() returned to the parent
    status,        \* the status os.waitpid returned to the parent
    out,           \* the lines the parent printed
    exit_code,     \* the exit code the kernel holds for the exited child
    done,          \* the steps of contain the child has completed, in order
    new_root,      \* new_root of contain: what create_container_root returned
    members,       \* members of create_container_root still to be extracted
    unshared,      \* the child lives in a mount namespace of its own
    private,       \* the child's mount tree is marked private
    root,          \* the host path of the child's root directory
    cwd,           \* the root the child's working directory lies under
    nsMounts,      \* the mount table of each child's own namespace
    dev,           \* the contents of the tmpfs each child mounted on dev
    hostMounts,    \* the mount table of the host namespace, the parents' view
    hostProp,      \* the propagation type of the host's mount tree
    disk,          \* the directories on the host disk and the entries in them
    archive,       \* the .tar files under the images directory
    umask          \* the file mode creation mask the invocations inherit

config == << level, image_name, command, container_id >>
parent == << ppc, pid, status, out >>
process == << cpc, exit_code, done, new_root, members, unshared, private, root, cwd >>
kernel == << nsMounts, dev, hostMounts, hostProp >>
environment == << archive, umask >>
files == << disk, environment >>
vars == << config, parent, process, kernel, files >>

\* A mount table entry: linux.mount(source, target, fstype, flags, data).
Mount(source, target, fstype, flags, data) ==
    [source |-> source, target |-> target, fstype |-> fstype,
     flags |-> flags, data |-> data]

\* The root filesystem of the host.
HostRoot == Mount("/dev/root", << >>, "ext4", {}, << >>)

\* The mount table the process of run r sees.
View(r) == IF unshared[r] THEN nsMounts[r] ELSE hostMounts

\* The mount of table T that path p lies on: the one mounted deepest.
TopMount(T, p) ==
    CHOOSE m \in T :
        /\ IsPrefix(m.target, p)
        /\ \A n \in T : IsPrefix(n.target, p) => Len(n.target) <= Len(m.target)

\* Mount data is the string "key=value,key=value,...": the sequence of its
\* comma-separated options, each a pair of key and value.
\* The value of option key in the data of an overlay mount, as the overlay
\* driver's option parser reads it.
OverlayOpt(m, key) ==
    LET i == CHOOSE j \in 1..Len(m.data) : m.data[j][1] = key
    IN  m.data[i][2]

Lower(m) == OverlayOpt(m, "lowerdir")
Upper(m) == OverlayOpt(m, "upperdir")

Contents(p) == IF p \in DOMAIN disk THEN disk[p] ELSE {}

\* What an overlay mount shows: the upper layer over the lower layer.
MergedView(m) == Contents(Upper(m)) \cup Contents(Lower(m))

\* os.makedirs(p) on the host disk.
Makedirs(p) ==
    [q \in DOMAIN disk \cup Ancestors(p) |->
        IF q \in DOMAIN disk THEN disk[q] ELSE {}]

\* The exit status as os.waitpid reports it: the exit code in the high byte.
WaitStatus(code) == code * 256

\* os.WEXITSTATUS
WEXITSTATUS(s) == (s \div 256) % 256

PidLine(p) == << "pid", p, 0 >>
ExitLine(p, s) == << "exited with status", p, s >>

\* Nothing has run yet: the host has its root mounted, shared as systemd
\* leaves it, and the images and containers directories are empty.
Boot ==
    /\ level = [r \in Runs |-> 0]
    /\ image_name = [r \in Runs |-> "ubuntu"]
    /\ command = [r \in Runs |-> ""]
    /\ container_id = [r \in Runs |-> ""]
    /\ ppc = [r \in Runs |-> "start"]
    /\ cpc = [r \in Runs |-> "none"]
    /\ pid = [r \in Runs |-> 0]
    /\ status = [r \in Runs |-> -1]
    /\ out = [r \in Runs |-> << >>]
    /\ exit_code = [r \in Runs |-> -1]
    /\ done = [r \in Runs |-> << >>]
    /\ new_root = [r \in Runs |-> << >>]
    /\ members = [r \in Runs |-> << >>]
    /\ unshared = [r \in Runs |-> FALSE]
    /\ private = [r \in Runs |-> FALSE]
    /\ root = [r \in Runs |-> << >>]
    /\ cwd = [r \in Runs |-> << >>]
    /\ nsMounts = [r \in Runs |-> {}]
    /\ dev = [r \in Runs |-> {}]
    /\ hostMounts = {HostRoot}
    /\ hostProp = "shared"
    /\ disk = [p \in Ancestors(image_dir) \cup Ancestors(container_dir) |-> {}]

\* The images directory holds ubuntu.tar and no nosuch.tar; rd.py is started
\* from a shell with the usual mask 022.
Init ==
    /\ Boot
    /\ archive = [p \in {_get_image_path("ubuntu")} |-> UbuntuArchive]
    /\ umask = Octal(0, 2, 2)

----------------------------------------------------------------------------
\* The parent: run()

\* The command line (which rd.py and its --image-name), then
\* container_id = str(uuid.uuid4()) and pid = os.fork(): the child starts
\* contain, the parent goes on with the child's pid.  Level 00 has no image
\* option and no container id.
Fork(r) ==
    /\ ppc[r] = "start"
    /\ \E l \in Levels, i \in ImageNames :
        /\ l = 0 => i = "ubuntu"
        /\ level' = [level EXCEPT ![r] = l]
        /\ image_name' = [image_name EXCEPT ![r] = i]
        /\ container_id' = [container_id EXCEPT ![r] = IF l = 4 THEN uuid4(r) ELSE ""]
        /\ cpc' = [cpc EXCEPT ![r] = IF l = 4 THEN "unshare" ELSE "exec"]
        /\ ppc' = [ppc EXCEPT ![r] = IF l = 0 THEN "print_pid" ELSE "wait"]
    /\ pid' = [pid EXCEPT ![r] = r]
    /\ UNCHANGED << command, status, out, exit_code, done, new_root, members,
                    unshared, private, root, cwd, kernel, files >>

\* print(pid), level 00 only.
PrintPid(r) ==
    /\ ppc[r] = "print_pid"
    /\ out' = [out EXCEPT ![r] = Append(@, PidLine(pid[r]))]
    /\ ppc' = [ppc EXCEPT ![r] = "wait"]
    /\ UNCHANGED << config, pid, status, process, kernel, files >>

\* A parent that reports the decoded exit code instead of the raw status.
WaitDecoded(r) ==
    /\ ppc[r] = "wait"
    /\ cpc[pid[r]] = "exited"
    /\ status' = [status EXCEPT ![r] = exit_code[pid[r]]]
    /\ out' = [out EXCEPT ![r] = Append(@, ExitLine(pid[r], exit_code[pid[r]]))]
    /\ ppc' = [ppc EXCEPT ![r] = "done"]
    /\ UNCHANGED << config, pid, process, kernel, files >>

\* A parent that waits for any child that has exited: os.waitpid(-1, 0).
WaitAnyChild(r) ==
    /\ ppc[r] = "wait"
    /\ \E q \in Runs :
        /\ cpc[q] = "exited"
        /\ status' = [status EXCEPT ![r] = WaitStatus(exit_code[q])]
        /\ out' = [out EXCEPT ![r] = Append(@, ExitLine(q, WaitStatus(exit_code[q])))]
    /\ ppc' = [ppc EXCEPT ![r] = "done"]
    /\ UNCHANGED << config, pid, process, kernel, files >>

\* _, status = os.waitpid(pid, 0): blocks until the child of that pid has
\* exited; then print('{} exited with status {}'.format(pid, status)).
Wait(r) ==
    /\ ppc[r] = "wait"
    /\ cpc[pid[r]] = "exited"
    /\ status' = [status EXCEPT ![r] = WaitStatus(exit_code[pid[r]])]
    /\ out' = [out EXCEPT ![r] =
                Append(@, ExitLine(pid[r], WaitStatus(exit_code[pid[r]])))]
    /\ ppc' = [ppc EXCEPT ![r] = "done"]
    /\ UNCHANGED << config, pid, process, kernel, files >>

----------------------------------------------------------------------------
\* The child: the kernel's side of its calls

\* The mount tree of the process of run r is in the host's peer group: a mount
\* or unmount it makes is replayed in every other member of the group.
Propagating(r) == hostProp = "shared" /\ (~unshared[r] \/ ~private[r])

\* The mount tables an operation of run r changes: its own, and its peers'.
Affected(r, q) ==
    \/ q = r /\ unshared[r]
    \/ q # r /\ Propagating(r) /\ unshared[q] /\ ~private[q]

AffectsHost(r) == ~unshared[r] \/ Propagating(r)

\* mount(2) of m by the process of run r.
AddMount(r, m) ==
    /\ nsMounts' = [q \in Runs |->
            IF Affected(r, q) THEN nsMounts[q] \cup {m} ELSE nsMounts[q]]
    /\ hostMounts' = IF AffectsHost(r) THEN hostMounts \cup {m} ELSE hostMounts

\* umount2(t, MNT_DETACH) by the process of run r: the mount on t and all below it.
Under(T, t) == { m \in T : IsPrefix(t, m.target) }

DetachMounts(r, t) ==
    /\ nsMounts' = [q \in Runs |->
            IF Affected(r, q) THEN nsMounts[q] \ Under(nsMounts[q], t)
            ELSE nsMounts[q]]
    /\ hostMounts' =
            IF AffectsHost(r) THEN hostMounts \ Under(hostMounts, t) ELSE hostMounts

\* The process of run r ends with the given exit code: the kernel keeps the code
\* for the parent and discards the process and its mount namespace.
Exit(r, code) ==
    /\ cpc' = [cpc EXCEPT ![r] = "exited"]
    /\ exit_code' = [exit_code EXCEPT ![r] = code]
    /\ done' = [done EXCEPT ![r] = << >>]
    /\ new_root' = [new_root EXCEPT ![r] = << >>]
    /\ members' = [members EXCEPT ![r] = << >>]
    /\ unshared' = [unshared EXCEPT ![r] = FALSE]
    /\ private' = [private EXCEPT ![r] = FALSE]
    /\ root' = [root EXCEPT ![r] = << >>]
    /\ cwd' = [cwd EXCEPT ![r] = << >>]
    /\ nsMounts' = [nsMounts EXCEPT ![r] = {}]
    /\ dev' = [dev EXCEPT ![r] = {}]
    /\ UNCHANGED << hostMounts, hostProp >>

\* A handler that ends the child with os._exit(0).
AbortExit0(r) ==
    /\ Exit(r, 0)
    /\ UNCHANGED << parent, files >>

\* A handler that prints the traceback and does not end the child.
AbortHangs(r) ==
    /\ cpc' = [cpc EXCEPT ![r] = "hung"]
    /\ UNCHANGED << parent, files, exit_code, done, new_root, members, unshared,
                    private, root, cwd, kernel >>

\* A handler that removes the directories of the container before it ends the child.
AbortRollback(r) ==
    /\ Exit(r, 1)
    /\ disk' = [p \in { q \in DOMAIN disk :
                        ~IsPrefix(Join(overlay_path, << container_id[r] >>), q) }
                    |-> disk[p]]
    /\ UNCHANGED << parent, environment >>

\* except Exception: traceback.print_exc(); os._exit(1)
Abort(r) ==
    /\ Exit(r, 1)
    /\ UNCHANGED << parent, files >>

\* A call of contain raises: the handler of run ends the child.
Raise(r) ==
    /\ Abort(r)
    /\ UNCHANGED config

\* A statement of contain completes: the child moves on to the next one.
Goto(r, next) == cpc' = [cpc EXCEPT ![r] = next]

Completed(r, step) == done' = [done EXCEPT ![r] = Append(@, step)]

----------------------------------------------------------------------------
\* The child: contain() of level 04

\* A contain that goes from unshare straight to building the root.
UnshareThenBuild(r) ==
    /\ cpc[r] = "unshare"
    /\ \/ /\ unshared' = [unshared EXCEPT ![r] = TRUE]
          /\ private' = [private EXCEPT ![r] = (hostProp = "private")]
          /\ nsMounts' = [nsMounts EXCEPT ![r] = hostMounts]
          /\ done' = [done EXCEPT ![r] = Append(@, "unshare")]
          /\ cpc' = [cpc EXCEPT ![r] = "chk_overlay"]
          /\ UNCHANGED << config, parent, exit_code, new_root, members, root, cwd,
                          dev, hostMounts, hostProp, files >>
       \/ Raise(r)

\* linux.unshare(linux.CLONE_NEWNS): a copy of the mount table of the caller.
Unshare(r) ==
    /\ cpc[r] = "unshare"
    /\ \/ /\ unshared' = [unshared EXCEPT ![r] = TRUE]
          /\ private' = [private EXCEPT ![r] = (hostProp = "private")]
          /\ nsMounts' = [nsMounts EXCEPT ![r] = hostMounts]
          /\ Completed(r, "unshare")
          /\ Goto(r, "private")
          /\ UNCHANGED << config, parent, exit_code, new_root, members, root, cwd,
                          dev, hostMounts, hostProp, files >>
       \/ Raise(r)

\* A remount of / that leaves the propagation type as it was.
MakePrivateNot(r) ==
    /\ cpc[r] = "private"
    /\ \/ /\ Completed(r, "private")
          /\ Goto(r, "chk_overlay")
          /\ UNCHANGED << config, parent, exit_code, new_root, members, unshared,
                          private, root, cwd, kernel, files >>
       \/ Raise(r)

\* linux.mount(None, '/', None, linux.MS_PRIVATE | linux.MS_REC, None)
MakePrivate(r) ==
    /\ cpc[r] = "private"
    /\ \/ /\ private' = [private EXCEPT ![r] = TRUE]
          /\ hostProp' = IF unshared[r] THEN hostProp ELSE "private"
          /\ Completed(r, "private")
          /\ Goto(r, "chk_overlay")
          /\ UNCHANGED << config, parent, exit_code, new_root, members, unshared,
                          root, cwd, nsMounts, dev, hostMounts, files >>
       \/ Raise(r)

\* if not os.path.exists(overlay_path):
ChkOverlay(r) ==
    /\ cpc[r] = "chk_overlay"
    /\ Goto(r, IF overlay_path \in DOMAIN disk THEN "assert" ELSE "mk_overlay")
    /\ UNCHANGED << config, parent, exit_code, done, new_root, members, unshared,
                    private, root, cwd, kernel, files >>

\* os.makedirs(overlay_path): raises when another run has made it meanwhile.
MkOverlay(r) ==
    /\ cpc[r] = "mk_overlay"
    /\ \/ /\ overlay_path \notin DOMAIN disk
          /\ disk' = Makedirs(overlay_path)
          /\ Goto(r, "assert")
          /\ UNCHANGED << config, parent, exit_code, done, new_root, members,
                          unshared, private, root, cwd, kernel, environment >>
       \/ Raise(r)

\* assert os.path.exists(image_path), "unable to locate image %s" % image_name
AssertImage(r) ==
    /\ cpc[r] = "assert"
    /\ IF _get_image_path(image_name[r]) \in DOMAIN archive
       THEN /\ Goto(r, "chk_image")
            /\ UNCHANGED << config, parent, exit_code, done, new_root, members,
                            unshared, private, root, cwd, kernel, files >>
       ELSE Raise(r)

\* if not os.path.exists(image_root):
ChkImage(r) ==
    /\ cpc[r] = "chk_image"
    /\ Goto(r, IF ImageRoot(image_name[r]) \in DOMAIN disk
               THEN "mk_upper" ELSE "mk_image")
    /\ UNCHANGED << config, parent, exit_code, done, new_root, members, unshared,
                    private, root, cwd, kernel, files >>

\* A makedirs that accepts a directory that exists (exist_ok).
MkImageExistOk(r) ==
    /\ cpc[r] = "mk_image"
    /\ \/ /\ disk' = IF ImageRoot(image_name[r]) \in DOMAIN disk THEN disk
                     ELSE Makedirs(ImageRoot(image_name[r]))
          /\ Goto(r, "getmembers")
          /\ UNCHANGED << config, parent, exit_code, done, new_root, members,
                          unshared, private, root, cwd, kernel, environment >>
       \/ Raise(r)

\* os.makedirs(image_root)
MkImage(r) ==
    /\ cpc[r] = "mk_image"
    /\ \/ /\ ImageRoot(image_name[r]) \notin DOMAIN disk
          /\ disk' = Makedirs(ImageRoot(image_name[r]))
          /\ Goto(r, "getmembers")
          /\ UNCHANGED << config, parent, exit_code, done, new_root, members,
                          unshared, private, root, cwd, kernel, environment >>
       \/ Raise(r)

\* A filter that knows character devices only.
IsDeviceChrOnly(m) == m.type = CHRTYPE

\* m.type in (tarfile.CHRTYPE, tarfile.BLKTYPE)
IsDevice(m) == m.type \in {CHRTYPE, BLKTYPE}

NotDevice(m) == ~IsDevice(m)

\* members of create_container_root: the archive without its device entries.
Filtered(r) == SelectSeq(archive[_get_image_path(image_name[r])], NotDevice)

\* with tarfile.open(image_path) as t: members = [m for m in t.getmembers() if ...]
\* and t.extractall(image_root, members=members), which writes one member after
\* the other: each step writes the next one, the first step opens the archive.
ExtractAll(r) ==
    /\ cpc[r] \in {"getmembers", "extractall"}
    /\ \/ LET ms == IF cpc[r] = "getmembers" THEN Filtered(r) ELSE members[r]
          IN  /\ disk' = [disk EXCEPT ![ImageRoot(image_name[r])] =
                            IF ms = << >> THEN @ ELSE @ \cup {Head(ms)}]
              /\ members' = [members EXCEPT ![r] =
                            IF Len(ms) <= 1 THEN << >> ELSE Tail(ms)]
              /\ Goto(r, IF Len(ms) <= 1 THEN "mk_upper" ELSE "extractall")
              /\ UNCHANGED << config, parent, exit_code, done, new_root, unshared,
                              private, root, cwd, kernel, environment >>
       \/ Raise(r)

\* if not os.path.exists(p): os.makedirs(p), for a directory of this container.
EnsureDir(r, p, next) ==
    \/ /\ disk' = IF p \in DOMAIN disk THEN disk ELSE Makedirs(p)
       /\ Goto(r, next)
       /\ UNCHANGED << config, parent, exit_code, done, new_root, members,
                       unshared, private, root, cwd, kernel, environment >>
    \/ Raise(r)

MkUpper(r) ==
    /\ cpc[r] = "mk_upper"
    /\ EnsureDir(r, upper_path(container_id[r]), "mk_work")

MkWork(r) ==
    /\ cpc[r] = "mk_work"
    /\ EnsureDir(r, work_root(container_id[r]), "mk_merged")

MkMerged(r) ==
    /\ cpc[r] = "mk_merged"
    /\ EnsureDir(r, merged_mount_point(container_id[r]), "mount_overlay")

\* An option string with the upper directory first.
OverlayDataUpperFirst(lower, upper, work) ==
    << << "upperdir", upper >>, << "lowerdir", lower >>, << "workdir", work >> >>

\* "lowerdir=" + image_root + ",upperdir=" + upper_path + ",workdir=" + work_root
OverlayData(lower, upper, work) ==
    << << "lowerdir", lower >>, << "upperdir", upper >>, << "workdir", work >> >>

\* linux.mount('overlay', merged_mount_point, "overlayfs", linux.MS_NODEV, ...)
\* and return merged_mount_point
MountOverlay(r) ==
    /\ cpc[r] = "mount_overlay"
    /\ \/ LET c == container_id[r]
              m == Mount("overlay", merged_mount_point(c), "overlayfs", {"MS_NODEV"},
                         OverlayData(ImageRoot(image_name[r]), upper_path(c),
                                     work_root(c)))
          IN  /\ { Lower(m), Upper(m), OverlayOpt(m, "workdir"), m.target }
                    \subseteq DOMAIN disk
              /\ AddMount(r, m)
              /\ new_root' = [new_root EXCEPT ![r] = m.target]
              /\ Completed(r, "build_root")
              /\ Goto(r, "mount_proc")
              /\ UNCHANGED << config, parent, exit_code, members, unshared, private,
                              root, cwd, dev, hostProp, files >>
       \/ Raise(r)

----------------------------------------------------------------------------
\* The child: _create_mounts() and makedev()

\* The overlay mounts the process of run r sees on directory p.
OverlaysOn(r, p) == { m \in View(r) : m.target = p /\ m.fstype = "overlayfs" }

\* The entries the process of run r sees under directory p.
EntriesAt(r, p) ==
    IF OverlaysOn(r, p) # {}
    THEN UNION { MergedView(m) : m \in OverlaysOn(r, p) }
    ELSE Contents(p)

HasDir(r, p, name) ==
    \E e \in EntriesAt(r, p) : e.name = name /\ e.type = DIRTYPE

\* linux.mount(source, os.path.join(new_root, name), fstype, flags, data)
MountUnder(r, source, name, fstype, flags, data, next) ==
    \/ /\ HasDir(r, new_root[r], name)
       /\ AddMount(r, Mount(source, Join(new_root[r], << name >>), fstype, flags, data))
       /\ Goto(r, next)
       /\ UNCHANGED << config, parent, exit_code, done, new_root, members, unshared,
                       private, root, cwd, dev, hostProp, files >>
    \/ Raise(r)

MountProc(r) ==
    /\ cpc[r] = "mount_proc"
    /\ MountUnder(r, "proc", "proc", "proc", {}, << >>, "mount_sys")

MountSys(r) ==
    /\ cpc[r] = "mount_sys"
    /\ MountUnder(r, "sysfs", "sys", "sysfs", {}, << >>, "mount_dev")

\* A _create_mounts that mounts no tmpfs on dev.
MountDevSkipped(r) ==
    /\ cpc[r] = "mount_dev"
    /\ \/ /\ Goto(r, "mk_pts")
          /\ UNCHANGED << config, parent, exit_code, done, new_root, members, unshared,
                          private, root, cwd, kernel, files >>
       \/ Raise(r)

MountDev(r) ==
    /\ cpc[r] = "mount_dev"
    /\ MountUnder(r, "tmpfs", "dev", "tmpfs", {"MS_NOSUID", "MS_STRICTATIME"},
                  << << "mode", << "755" >> >> >>, "mk_pts")

\* The filesystem that os.path.join(new_root, 'dev') lies on.
DevMount(r) == TopMount(View(r), Join(new_root[r], << "dev" >>))

InDev(e) == [e EXCEPT !.name = "dev/" \o @]

\* os.path.exists(os.path.join(new_root, 'dev', name))
ExistsInDev(r, name) ==
    LET m == DevMount(r)
    IN  CASE m.fstype = "tmpfs" -> \E e \in dev[r] : e.name = name
          [] m.fstype = "overlayfs" -> \E e \in MergedView(m) : e.name = "dev/" \o name
          [] OTHER -> FALSE

\* Entries es are created under os.path.join(new_root, 'dev').
WriteDev(r, es) ==
    LET m == DevMount(r)
    IN  /\ \A e \in es : ~ExistsInDev(r, e.name)
        /\ dev' = IF m.fstype = "tmpfs" THEN [dev EXCEPT ![r] = @ \cup es] ELSE dev
        /\ disk' = IF m.fstype = "overlayfs"
                   THEN [disk EXCEPT ![Upper(m)] = @ \cup { InDev(e) : e \in es }]
                   ELSE disk

\* if not os.path.exists(devpts_path): os.makedirs(devpts_path)
MkPts(r) ==
    /\ cpc[r] = "mk_pts"
    /\ \/ /\ IF ExistsInDev(r, "pts")
             THEN Goto(r, "makedev") /\ UNCHANGED << dev, disk >>
             ELSE Goto(r, "mount_pts") /\ WriteDev(r, { Member("pts", DIRTYPE) })
          /\ UNCHANGED << config, parent, exit_code, done, new_root, members, unshared,
                          private, root, cwd, nsMounts, hostMounts, hostProp,
                          environment >>
       \/ Raise(r)

\* linux.mount('devpts', devpts_path, 'devpts', 0, '')
MountPts(r) ==
    /\ cpc[r] = "mount_pts"
    /\ \/ /\ ExistsInDev(r, "pts")
          /\ AddMount(r, Mount("devpts", Join(new_root[r], << "dev", "pts" >>),
                               "devpts", {}, << >>))
          /\ Goto(r, "makedev")
          /\ UNCHANGED << config, parent, exit_code, done, new_root, members, unshared,
                          private, root, cwd, dev, hostProp, files >>
       \/ Raise(r)

\* A makedev that links the file-descriptor directory only.
SymlinksFdOnly == { Entry("fd", SYMTYPE, 0, 0, 0, "/proc/self/fd") }

\* os.symlink('/proc/self/fd/%d' % i, ...) and os.symlink('/proc/self/fd', ...)
Symlinks ==
    { Entry("stdin", SYMTYPE, 0, 0, 0, "/proc/self/fd/0"),
      Entry("stdout", SYMTYPE, 0, 0, 0, "/proc/self/fd/1"),
      Entry("stderr", SYMTYPE, 0, 0, 0, "/proc/self/fd/2"),
      Entry("fd", SYMTYPE, 0, 0, 0, "/proc/self/fd") }

\* DEVICES of makedev with the mode os.mknod is called with: 0o666 | dev_type,
\* and os.makedev(major, minor).
DEVICES ==
    { Entry("null", CHRTYPE, Octal(6, 6, 6), 1, 3, ""),
      Entry("zero", CHRTYPE, Octal(6, 6, 6), 1, 5, ""),
      Entry("random", CHRTYPE, Octal(6, 6, 6), 1, 8, ""),
      Entry("urandom", CHRTYPE, Octal(6, 6, 6), 1, 9, ""),
      Entry("console", CHRTYPE, Octal(6, 6, 6), 136, 1, ""),
      Entry("tty", CHRTYPE, Octal(6, 6, 6), 5, 0, ""),
      Entry("full", CHRTYPE, Octal(6, 6, 6), 1, 7, "") }

\* os.mknod(path, mode, device): mknod(2) gives the node the permission bits
\* mode & ~umask of the calling process.
Mknod(e) == [e EXCEPT !.mode = AndNot(@, umask)]

\* makedev(os.path.join(new_root, 'dev')), and _create_mounts returns
Makedev(r) ==
    /\ cpc[r] = "makedev"
    /\ \/ /\ WriteDev(r, Symlinks \cup { Mknod(e) : e \in DEVICES })
          /\ Completed(r, "populate")
          /\ Goto(r, "mk_old_root")
          /\ UNCHANGED << config, parent, exit_code, new_root, members, unshared,
                          private, root, cwd, nsMounts, hostMounts, hostProp,
                          environment >>
       \/ Raise(r)

----------------------------------------------------------------------------
\* The child: the root switch and the exec

\* old_root = os.path.join(new_root, 'old_root')
old_root(r) == Join(new_root[r], << "old_root" >>)

\* A contain that creates old_root only when it is absent, as the builder
\* does with its directories.
MkOldRootExistOk(r) ==
    /\ cpc[r] = "mk_old_root"
    /\ \/ /\ disk' = IF \E e \in EntriesAt(r, new_root[r]) : e.name = "old_root"
                     THEN disk
                     ELSE [p \in DOMAIN disk |->
                            IF \E m \in OverlaysOn(r, new_root[r]) : Upper(m) = p
                            THEN disk[p] \cup { Member("old_root", DIRTYPE) }
                            ELSE disk[p]]
          /\ Completed(r, "mk_old_root")
          /\ Goto(r, "pivot_root")
          /\ UNCHANGED << config, parent, exit_code, new_root, members, unshared,
                          private, root, cwd, kernel, environment >>
       \/ Raise(r)

\* os.makedirs(old_root): the directory comes to lie in the upper layer.
MkOldRoot(r) ==
    /\ cpc[r] = "mk_old_root"
    /\ \/ /\ \A e \in EntriesAt(r, new_root[r]) : e.name # "old_root"
          /\ old_root(r) \notin DOMAIN disk
          /\ disk' = IF OverlaysOn(r, new_root[r]) # {}
                     THEN [p \in DOMAIN disk |->
                            IF \E m \in OverlaysOn(r, new_root[r]) : Upper(m) = p
                            THEN disk[p] \cup { Member("old_root", DIRTYPE) }
                            ELSE disk[p]]
                     ELSE Makedirs(old_root(r))
          /\ Completed(r, "mk_old_root")
          /\ Goto(r, "pivot_root")
          /\ UNCHANGED << config, parent, exit_code, new_root, members, unshared,
                          private, root, cwd, kernel, environment >>
       \/ Raise(r)

\* The mount table after pivot_root(nr, put_old), as seen from the new root.
Pivoted(T, nr, put_old) ==
    { [m EXCEPT !.target = IF IsPrefix(nr, @) THEN Strip(nr, @)
                           ELSE Join(Strip(nr, put_old), @)] : m \in T }

\* linux.pivot_root(new_root, old_root)
PivotRoot(r) ==
    /\ cpc[r] = "pivot_root"
    /\ \/ /\ \E m \in View(r) : m.target = new_root[r]
          /\ \/ HasDir(r, new_root[r], "old_root")
             \/ old_root(r) \in DOMAIN disk
          /\ ~Propagating(r)
          /\ nsMounts' = [nsMounts EXCEPT ![r] =
                IF unshared[r] THEN Pivoted(@, new_root[r], old_root(r)) ELSE @]
          /\ hostMounts' = IF unshared[r] THEN hostMounts
                           ELSE Pivoted(hostMounts, new_root[r], old_root(r))
          /\ root' = [root EXCEPT ![r] = new_root[r]]
          /\ Completed(r, "pivot_root")
          /\ Goto(r, "chdir")
          /\ UNCHANGED << config, parent, exit_code, new_root, members, unshared,
                          private, cwd, dev, hostProp, files >>
       \/ Raise(r)

\* os.chdir('/')
Chdir(r) ==
    /\ cpc[r] = "chdir"
    /\ \/ /\ cwd' = [cwd EXCEPT ![r] = root[r]]
          /\ Completed(r, "chdir")
          /\ Goto(r, "umount")
          /\ UNCHANGED << config, parent, exit_code, new_root, members, unshared,
                          private, root, kernel, files >>
       \/ Raise(r)

\* linux.umount2('/old_root', linux.MNT_DETACH)
Umount2(r) ==
    /\ cpc[r] = "umount"
    /\ \/ /\ \E m \in View(r) : m.target = << "old_root" >>
          /\ DetachMounts(r, << "old_root" >>)
          /\ Completed(r, "umount")
          /\ Goto(r, "rmdir")
          /\ UNCHANGED << config, parent, exit_code, new_root, members, unshared,
                          private, root, cwd, dev, hostProp, files >>
       \/ Raise(r)

\* The mount that is the root directory of the process of run r.
RootMount(r) == TopMount(View(r), << >>)

\* What the process of run r sees in its root directory.
RootEntries(r) ==
    IF RootMount(r).fstype = "overlayfs" THEN MergedView(RootMount(r)) ELSE {}

\* A contain that leaves the old_root directory in place.
RmdirKeeps(r) ==
    /\ cpc[r] = "rmdir"
    /\ \/ /\ ~\E m \in View(r) : m.target = << "old_root" >>
          /\ Completed(r, "rmdir")
          /\ Goto(r, "exec")
          /\ UNCHANGED << config, parent, exit_code, new_root, members, unshared,
                          private, root, cwd, kernel, files >>
       \/ Raise(r)

\* os.rmdir('/old_root')
Rmdir(r) ==
    /\ cpc[r] = "rmdir"
    /\ \/ /\ ~\E m \in View(r) : m.target = << "old_root" >>
          /\ RootMount(r).fstype = "overlayfs"
          /\ Member("old_root", DIRTYPE) \in Contents(Upper(RootMount(r)))
          /\ disk' = [disk EXCEPT ![Upper(RootMount(r))] =
                        @ \ { Member("old_root", DIRTYPE) }]
          /\ Completed(r, "rmdir")
          /\ Goto(r, "exec")
          /\ UNCHANGED << config, parent, exit_code, new_root, members, unshared,
                          private, root, cwd, kernel, environment >>
       \/ Raise(r)

\* Whether execvp finds command c under the root the process has now.
Executable(r, c) ==
    IF RootMount(r).fstype = "overlayfs"
    THEN \E e \in RootEntries(r) : e.name = ExeName(c) /\ e.type = REGTYPE
    ELSE ExeName(c) \in HostBin

\* os.execvp(command[0], command).  The Command argument of run is read here
\* for the first time: this is where the model draws it.
Exec(r) ==
    /\ cpc[r] = "exec"
    /\ \E c \in Commands :
        /\ command' = [command EXCEPT ![r] = c]
        /\ \/ /\ Executable(r, c)
              /\ Completed(r, "exec")
              /\ Goto(r, "running")
              /\ UNCHANGED << level, image_name, container_id, parent, exit_code,
                              new_root, members, unshared, private, root, cwd,
                              kernel, files >>
           \/ /\ Abort(r)
              /\ UNCHANGED << level, image_name, container_id >>

----------------------------------------------------------------------------
\* The exec'd program

\* The program creates a file under its root: the overlay puts it in the upper layer.
ProgramWrite(r) ==
    /\ cpc[r] = "running"
    /\ RootMount(r).fstype = "overlayfs"
    /\ DataFile \notin RootEntries(r)
    /\ disk' = [disk EXCEPT ![Upper(RootMount(r))] = @ \cup { DataFile }]
    /\ UNCHANGED << config, parent, process, kernel, environment >>

\* The program ends.
ProgramExit(r) ==
    /\ cpc[r] = "running"
    /\ \E code \in ProgramCodes : Exit(r, code)
    /\ UNCHANGED << config, parent, files >>

----------------------------------------------------------------------------
\* Specifications

Step(r) ==
    \/ Fork(r) \/ PrintPid(r) \/ Wait(r)
    \/ Unshare(r) \/ MakePrivate(r)
    \/ ChkOverlay(r) \/ MkOverlay(r) \/ AssertImage(r)
    \/ ChkImage(r) \/ MkImage(r) \/ ExtractAll(r)
    \/ MkUpper(r) \/ MkWork(r) \/ MkMerged(r) \/ MountOverlay(r)
    \/ MountProc(r) \/ MountSys(r) \/ MountDev(r)
    \/ MkPts(r) \/ MountPts(r) \/ Makedev(r)
    \/ MkOldRoot(r) \/ PivotRoot(r) \/ Chdir(r) \/ Umount2(r) \/ Rmdir(r)
    \/ Exec(r)
    \/ ProgramWrite(r) \/ ProgramExit(r)

Next == \E r \in Runs : Step(r)

Spec == Init /\ [][Next]_vars

\* The kernel schedules every process: a child that can take its next step in
\* contain takes it, and a waitpid whose child has exited returns.  Nothing
\* makes an exec'd program end.
Contain(r) ==
    \/ Unshare(r) \/ MakePrivate(r)
    \/ ChkOverlay(r) \/ MkOverlay(r) \/ AssertImage(r)
    \/ ChkImage(r) \/ MkImage(r) \/ ExtractAll(r)
    \/ MkUpper(r) \/ MkWork(r) \/ MkMerged(r) \/ MountOverlay(r)
    \/ MountProc(r) \/ MountSys(r) \/ MountDev(r)
    \/ MkPts(r) \/ MountPts(r) \/ Makedev(r)
    \/ MkOldRoot(r) \/ PivotRoot(r) \/ Chdir(r) \/ Umount2(r) \/ Rmdir(r)
    \/ Exec(r)

FairSpec ==
    /\ Spec
    /\ \A r \in Runs : WF_vars(Contain(r)) /\ WF_vars(PrintPid(r) \/ Wait(r))

\* One invocation on a host whose ubuntu.tar is any archive of up to MaxMembers
\* members, alone or before or after the members of the stock archive; an
\* archive may ship a directory old_root.
MemberUniverse ==
    { Member("etc", t) : t \in {REGTYPE, DIRTYPE, CHRTYPE, BLKTYPE, FIFOTYPE} }
        \cup { Member("var", REGTYPE), Member("old_root", DIRTYPE) }

Archives == UNION { [1..k -> MemberUniverse] : k \in 0..MaxMembers }

InitArchive ==
    /\ Boot
    /\ \E a \in Archives :
        archive \in { [p \in {_get_image_path("ubuntu")} |-> t] :
                        t \in {a, a \o UbuntuArchive, UbuntuArchive \o a} }
    /\ umask = Octal(0, 2, 2)

NextSingle == Step(1)

SpecArchive == InitArchive /\ [][NextSingle]_vars

\* One invocation with the stock archive, started under any of the masks.
InitUmask ==
    /\ Boot
    /\ archive = [p \in {_get_image_path("ubuntu")} |-> UbuntuArchive]
    /\ umask \in Umasks

SpecUmask == InitUmask /\ [][NextSingle]_vars

----------------------------------------------------------------------------
\* Properties

\* The steps of contain, in the order of its statements.
ContainOrder ==
    << "unshare", "private", "build_root", "populate", "mk_old_root",
       "pivot_root", "chdir", "umount", "rmdir", "exec" >>

BuildPcs ==
    { "chk_overlay", "mk_overlay", "assert", "chk_image", "mk_image", "getmembers",
      "extractall", "mk_upper", "mk_work", "mk_merged", "mount_overlay" }

PopulatePcs == { "mount_proc", "mount_sys", "mount_dev", "mk_pts", "mount_pts", "makedev" }

\* The places of a child that is still in contain.
ContainPcs ==
    { "unshare", "private" } \cup BuildPcs \cup PopulatePcs
        \cup { "mk_old_root", "pivot_root", "chdir", "umount", "rmdir", "exec" }

\* The step of ContainOrder a child at pc is in; one past the last when it has exec'd.
StepIndex(pc) ==
    CASE pc = "unshare" -> 1
      [] pc = "private" -> 2
      [] pc \in BuildPcs -> 3
      [] pc \in PopulatePcs -> 4
      [] pc = "mk_old_root" -> 5
      [] pc = "pivot_root" -> 6
      [] pc = "chdir" -> 7
      [] pc = "umount" -> 8
      [] pc = "rmdir" -> 9
      [] pc = "exec" -> 10
      [] OTHER -> 11

Contained(r) == level[r] = 4 /\ cpc[r] \in ContainPcs \cup {"running"}

\* C1: a level 04 child that is in a step of contain, or has exec'd, has
\* completed exactly the steps before it, each once and in the order unshare,
\* private, build root, populate, old_root, pivot_root, chdir, umount, rmdir, exec.
C1_StepsInOrder ==
    \A r \in Runs :
        Contained(r) => done[r] = SubSeq(ContainOrder, 1, StepIndex(cpc[r]) - 1)

\* A child has exec'd after the ten steps.
C1_Witness ==
    \E r \in Runs : level[r] = 4 /\ cpc[r] = "running" /\ Len(done[r]) = 10

\* C2: the host mount table, which every parent sees, stays what it was at
\* boot, and a child whose mount table differs from it or that is past the
\* second step lives in a namespace of its own whose tree is private.
C2_HostMountsUntouched ==
    /\ hostMounts = {HostRoot}
    /\ hostProp = "shared"
    /\ \A r \in Runs :
        (Contained(r) /\ (StepIndex(cpc[r]) >= 3 \/ View(r) # {HostRoot}))
            => unshared[r] /\ private[r]

\* A child has mounted the overlay, proc, sysfs, tmpfs and devpts, pivoted and
\* detached the old root, while its parent waits.
C2_Witness ==
    \E r \in Runs :
        /\ level[r] = 4 /\ cpc[r] = "exec" /\ ppc[r] = "wait"
        /\ { m.fstype : m \in nsMounts[r] } =
                { "overlayfs", "proc", "sysfs", "tmpfs", "devpts" }

\* C3: a child in contain (level 00 or 04) either goes on to a later place
\* of contain, or to the exec'd program from the exec, or ends with exit code 1
\* leaving the disk and the host mounts as they are; a child that has ended
\* stays ended with the exit code it has.
C3_FailureExitsWithOne ==
    [][\A r \in Runs :
        /\ (cpc[r] \in ContainPcs /\ cpc'[r] # cpc[r]) =>
            \/ /\ cpc'[r] \in ContainPcs
               /\ StepIndex(cpc'[r]) >= StepIndex(cpc[r])
            \/ cpc[r] = "exec" /\ cpc'[r] = "running"
            \/ /\ cpc'[r] = "exited"
               /\ exit_code'[r] = 1
               /\ done'[r] = << >>
               /\ disk' = disk
               /\ hostMounts' = hostMounts
        /\ cpc[r] = "exited" => cpc'[r] = "exited" /\ exit_code'[r] = exit_code[r]
      ]_vars

\* A level 04 child has ended with exit code 1 after it had made its directories.
C3_Witness ==
    \E r \in Runs :
        /\ level[r] = 4 /\ cpc[r] = "exited" /\ exit_code[r] = 1
        /\ merged_mount_point(container_id[r]) \in DOMAIN disk

Reported(r) ==
    /\ ppc[r] = "done"
    /\ status[r] = WaitStatus(exit_code[r])
    /\ out[r] # << >>
    /\ out[r][Len(out[r])] = ExitLine(r, status[r])

\* C4: once the parent has forked, the child gets to the exec'd program, or
\* else (it failed in contain) the parent's waitpid returns and the parent
\* prints the exit report.
C4_WaitReturns ==
    \A r \in Runs : (pid[r] # 0) ~> (cpc[r] = "running" \/ Reported(r))

\* A parent has reported a child that failed in contain.
C4_Witness ==
    \E r \in Runs : level[r] = 4 /\ Reported(r) /\ status[r] = WaitStatus(1)

\* C5: a level 04 child that is at the exec, or has exec'd, has the merged
\* directory as its root and working directory, and sees neither a mount on
\* or below /old_root, nor the host's root filesystem, nor an entry old_root in /.
C5_OldRootGone ==
    \A r \in Runs :
        (level[r] = 4 /\ cpc[r] \in {"exec", "running"}) =>
            /\ unshared[r]
            /\ root[r] = merged_mount_point(container_id[r])
            /\ cwd[r] = root[r]
            /\ RootMount(r).fstype = "overlayfs"
            /\ \A m \in View(r) :
                ~IsPrefix(<< "old_root" >>, m.target) /\ m # HostRoot
                    /\ m.fstype # "ext4"
            /\ \A e \in RootEntries(r) : e.name # "old_root"

\* A child is at the exec after the pivot, the unmount and the rmdir.
C5_Witness ==
    \E r \in Runs :
        /\ level[r] = 4 /\ cpc[r] = "exec"
        /\ SubSeq(done[r], 6, 9) = << "pivot_root", "chdir", "umount", "rmdir" >>

\* The level 04 runs that have their container id.
Containers == { r \in Runs : level[r] = 4 /\ container_id[r] # "" }

ContainerPaths(c) == { upper_path(c), work_root(c), merged_mount_point(c) }

\* What the merged directory of the container of run r shows, mounted or not.
MergedOf(r) ==
    Contents(upper_path(container_id[r])) \cup Contents(ImageRoot(image_name[r]))

\* C6: two containers have distinct ids and six distinct upper, work and
\* merged paths; a step that makes the file appear in the merged view of one
\* container leaves the merged view of every other container and every image
\* tree as they were, and puts the file in the upper directory of that container.
C6_WritableLayersApart ==
    /\ [](\A r1, r2 \in Containers :
            r1 # r2 =>
                /\ container_id[r1] # container_id[r2]
                /\ Cardinality(ContainerPaths(container_id[r1])
                        \cup ContainerPaths(container_id[r2])) = 6)
    /\ [][\A r1 \in Containers :
            (DataFile \notin MergedOf(r1) /\ DataFile \in MergedOf(r1)') =>
                /\ DataFile \in Contents(upper_path(container_id[r1]))'
                /\ \A r2 \in Containers \ {r1} : MergedOf(r2)' = MergedOf(r2)
                /\ \A i \in ImageNames :
                    Contents(ImageRoot(i))' = Contents(ImageRoot(i))
       ]_vars

\* Two containers of the same image run their programs; one has created the
\* file, and the other does not see it.
C6_Witness ==
    \E r1, r2 \in Containers :
        /\ r1 # r2 /\ image_name[r1] = image_name[r2]
        /\ cpc[r1] = "running" /\ cpc[r2] = "running"
        /\ DataFile \in RootEntries(r1)
        /\ DataFile \notin RootEntries(r2)

Extracting(r) == level[r] = 4 /\ cpc[r] \in {"getmembers", "extractall"}

\* C7: a run starts to extract only in the step in which it creates the image
\* root, which was absent; an image root, once there, stays; a run that finds
\* it present goes on to its own directories without a write; the image tree
\* is changed only by a step of a run that is extracting that image; and the
\* overlay a run mounts has the image root of its image as lower layer.
C7_ExtractedAtMostOnce ==
    [][/\ \A r \in Runs :
            /\ (~Extracting(r) /\ Extracting(r)') =>
                /\ ImageRoot(image_name[r]) \notin DOMAIN disk
                /\ ImageRoot(image_name[r]) \in DOMAIN disk'
                /\ \A q \in Runs \ {r} : image_name[q] = image_name[r] => ~Extracting(q)
            /\ (cpc[r] = "chk_image" /\ ImageRoot(image_name[r]) \in DOMAIN disk
                    /\ cpc'[r] # cpc[r]) =>
                cpc'[r] = "mk_upper" /\ disk' = disk
            /\ (cpc[r] = "mount_overlay" /\ cpc'[r] = "mount_proc") =>
                \E m \in nsMounts'[r] :
                    m.fstype = "overlayfs" /\ Lower(m) = ImageRoot(image_name[r])
       /\ \A i \in ImageNames :
            /\ ImageRoot(i) \in DOMAIN disk => ImageRoot(i) \in DOMAIN disk'
            /\ Contents(ImageRoot(i))' # Contents(ImageRoot(i)) =>
                \E q \in Runs :
                    /\ Extracting(q) /\ image_name[q] = i
                    /\ cpc'[q] # cpc[q] \/ members'[q] # members[q]
      ]_vars

\* A run found the image root present and went on while another still extracts.
C7_Witness ==
    \E r1, r2 \in Containers :
        /\ image_name[r1] = image_name[r2]
        /\ cpc[r1] = "extractall"
        /\ cpc[r2] \in {"mk_upper", "mk_work", "mk_merged", "mount_overlay"}

\* The members of the archive of image i.
ArchiveMembers(i) ==
    { archive[_get_image_path(i)][k] : k \in 1..Len(archive[_get_image_path(i)]) }

\* The run has left the extraction behind it.
Extracted(r) ==
    /\ level[r] = 4
    /\ cpc[r] \in ({"mk_upper", "mk_work", "mk_merged", "mount_overlay", "running"}
                    \cup (ContainPcs \ ({"unshare", "private"} \cup BuildPcs)))

\* C8: when the one run has extracted the archive, the image root holds the
\* members of the archive that are neither character nor block devices: all
\* of them, and nothing else.
C8_DevicesDropped ==
    \A r \in Runs :
        Extracted(r) =>
            Contents(ImageRoot(image_name[r])) =
                { m \in ArchiveMembers(image_name[r]) :
                    m.type # CHRTYPE /\ m.type # BLKTYPE }

\* An archive with a block device, a character device and a fifo has been extracted.
C8_Witness ==
    \E r \in Runs :
        /\ Extracted(r)
        /\ { Member("etc", BLKTYPE), Member("etc", CHRTYPE), Member("etc", FIFOTYPE) }
                \subseteq ArchiveMembers(image_name[r])
        /\ Member("etc", FIFOTYPE) \in Contents(ImageRoot(image_name[r]))

\* C9: the status a parent has reported is the wait status of the child it
\* forked, as the kernel encodes the child's exit code, and decodes to that
\* code: 0 when the program ended with 0; and a child whose command does not
\* exist has ended with exit code 1.
C9_StatusRelayed ==
    \A r \in Runs :
        /\ (cpc[r] = "exited" /\ command[r] = "/no/such/binary") => exit_code[r] = 1
        /\ (cpc[r] = "running") => command[r] = "/bin/sh"
        /\ ppc[r] = "done" =>
            /\ pid[r] = r
            /\ status[r] = WaitStatus(exit_code[r])
            /\ WEXITSTATUS(status[r]) = exit_code[r]
            /\ exit_code[r] = 0 => status[r] = 0
            /\ out[r][Len(out[r])] = ExitLine(pid[r], status[r])

\* One parent has reported status 0 of /bin/sh, another the status of a
\* child whose command does not exist.
C9_Witness ==
    \E r1, r2 \in Runs :
        /\ ppc[r1] = "done" /\ command[r1] = "/bin/sh" /\ status[r1] = 0
        /\ ppc[r2] = "done" /\ command[r2] = "/no/such/binary"
        /\ WEXITSTATUS(status[r2]) = 1

\* The archive of the image of run r does not exist.
ImageMissing(r) == level[r] = 4 /\ _get_image_path(image_name[r]) \notin DOMAIN archive

\* C10: a step of a run whose archive does not exist creates no directory
\* and mounts no overlay.
C10_NoSideEffectWithoutImage ==
    [][\A r \in Runs :
        (ImageMissing(r) /\ cpc'[r] # cpc[r]) =>
            /\ DOMAIN disk' = DOMAIN disk
            /\ \A m \in nsMounts'[r] \cup hostMounts' : m.fstype # "overlayfs"
      ]_vars

\* The overlay mounts in the mount table of the child of run r.
OverlayMounts(r) == { m \in nsMounts[r] : m.fstype = "overlayfs" }

\* C11: the step in which the builder returns adds one mount to the child's
\* table and none to the host's: an overlay on the merged directory of that
\* container, with the no-device flag, whose options are lowerdir = the image
\* root of the image, upperdir = the upper directory and workdir = the work
\* directory of the container, in that order; the path returned is the mount
\* target.  A child before that step has no overlay mount, a child after it one.
C11_OverlayMountOptions ==
    /\ [][\A r \in Runs :
            (cpc[r] = "mount_overlay" /\ cpc'[r] = "mount_proc") =>
                LET c == container_id[r]
                    i == image_name[r]
                    added == nsMounts'[r] \ nsMounts[r]
                IN  /\ Cardinality(added) = 1
                    /\ \A m \in added :
                        /\ m.source = "overlay"
                        /\ m.fstype = "overlayfs"
                        /\ m.target = container_dir \o << "overlay", c, "merged" >>
                        /\ "MS_NODEV" \in m.flags
                        /\ Len(m.data) = 3
                        /\ m.data[1] = << "lowerdir", image_dir \o << i, "rootfs" >> >>
                        /\ m.data[2] =
                            << "upperdir", container_dir \o << "overlay", c, "upper" >> >>
                        /\ m.data[3] =
                            << "workdir", container_dir \o << "overlay", c, "work" >> >>
                        /\ new_root'[r] = m.target
                    /\ hostMounts' = hostMounts
       ]_vars
    /\ [](\A r \in Runs :
            Contained(r) =>
                Cardinality(OverlayMounts(r)) = IF StepIndex(cpc[r]) >= 4 THEN 1 ELSE 0)

\* Two containers have each mounted their overlay on the same image root.
C11_Witness ==
    \E r1, r2 \in Containers :
        /\ r1 # r2
        /\ cpc[r1] = "mount_proc" /\ cpc[r2] = "mount_proc"
        /\ \E m1 \in OverlayMounts(r1), m2 \in OverlayMounts(r2) :
            Lower(m1) = Lower(m2) /\ Upper(m1) # Upper(m2) /\ m1.target # m2.target

\* The child of run r has _create_mounts behind it.
Populated(r) == level[r] = 4 /\ Contained(r) /\ StepIndex(cpc[r]) >= 5

\* The names under the dev directory of the child of run r, each with its type.
DevTypes(r) == { << e.name, e.type >> : e \in dev[r] }

\* C12 as stated: after the population, dev holds eight entries.
C12_EightEntries ==
    \A r \in Runs : Populated(r) => Cardinality(DevTypes(r)) = 8

\* C12: after _create_mounts has run on the empty tmpfs, dev holds the seven
\* character devices and the four symbolic links of makedev (eleven entries)
\* and the pts directory that _create_mounts creates before it, one entry per
\* name, and nothing else.
C12_DevEntries ==
    \A r \in Runs :
        Populated(r) =>
            /\ DevTypes(r) =
                { << n, CHRTYPE >> :
                    n \in {"null", "zero", "random", "urandom", "console", "tty", "full"} }
                \cup { << n, SYMTYPE >> : n \in {"stdin", "stdout", "stderr", "fd"} }
                \cup { << "pts", DIRTYPE >> }
            /\ Cardinality(dev[r]) = 12
            /\ Cardinality({ e \in dev[r] : e.name # "pts" }) = 11

\* A child has populated dev and is about to create old_root.
C12_Witness ==
    \E r \in Runs : Populated(r) /\ cpc[r] = "mk_old_root" /\ dev[r] # {}

\* The entry of that name under the dev directory of the child of run r.
DevEntry(r, name) == CHOOSE e \in dev[r] : e.name = name

\* C13: after makedev, each of the seven device nodes is a character device
\* with permission bits 0666 and the major and minor numbers null (1,3),
\* zero (1,5), random (1,8), urandom (1,9), console (136,1), tty (5,0),
\* full (1,7); and stdin, stdout, stderr and fd are symbolic links to
\* /proc/self/fd/0, /proc/self/fd/1, /proc/self/fd/2 and /proc/self/fd.
C13_DeviceNumbers ==
    \A r \in Runs :
        Populated(r) =>
            /\ \A d \in { << "null", 1, 3 >>, << "zero", 1, 5 >>, << "random", 1, 8 >>,
                          << "urandom", 1, 9 >>, << "console", 136, 1 >>,
                          << "tty", 5, 0 >>, << "full", 1, 7 >> } :
                /\ \E e \in dev[r] : e.name = d[1]
                /\ DevEntry(r, d[1]).type = CHRTYPE
                /\ DevEntry(r, d[1]).major = d[2]
                /\ DevEntry(r, d[1]).minor = d[3]
                /\ DevEntry(r, d[1]).mode = 6 * 64 + 6 * 8 + 6
            /\ \A l \in { << "stdin", "/proc/self/fd/0" >>, << "stdout", "/proc/self/fd/1" >>,
                          << "stderr", "/proc/self/fd/2" >>, << "fd", "/proc/self/fd" >> } :
                /\ \E e \in dev[r] : e.name = l[1]
                /\ DevEntry(r, l[1]).type = SYMTYPE
                /\ DevEntry(r, l[1]).link = l[2]

\* C14: a parent that has forked and is blocked in waitpid has printed the pid
\* of its child and nothing else; a parent whose waitpid has returned has
\* printed the pid and then the pid with the raw wait status, in that order.
C14_ParentPrintsInOrder ==
    \A r \in Runs :
        /\ ppc[r] = "wait" => out[r] = << PidLine(pid[r]) >>
        /\ ppc[r] = "done" =>
            out[r] = << PidLine(pid[r]), ExitLine(pid[r], WaitStatus(exit_code[pid[r]])) >>

\* C15: the step in which a child fails in contain and ends leaves the disk,
\* the host mount table and the mount tables and dev contents of the other
\* children as they were: nothing is unmounted or removed on the way out; and
\* the directories of a container whose child has ended (upper, work, merged,
\* and the overlay directory above them) stay on disk with the entries they have.
C15_NoRollback ==
    [][\A r \in Runs :
        /\ (cpc[r] \in ContainPcs /\ cpc'[r] = "exited") =>
            /\ disk' = disk
            /\ hostMounts' = hostMounts
            /\ hostProp' = hostProp
            /\ \A q \in Runs \ {r} : nsMounts'[q] = nsMounts[q] /\ dev'[q] = dev[q]
        /\ (level[r] = 4 /\ cpc[r] = "exited") =>
            \A p \in ContainerPaths(container_id[r]) \cup {overlay_path} :
                p \in DOMAIN disk =>
                    /\ p \in DOMAIN disk'
                    /\ p \in ContainerPaths(container_id[r]) => disk'[p] = disk[p]
      ]_vars

\* A child has failed between the creation of old_root and its removal: its
\* three directories and the old_root directory in the upper layer are still there.
C15_Witness ==
    \E r \in Runs :
        /\ level[r] = 4 /\ cpc[r] = "exited" /\ exit_code[r] = 1
        /\ ContainerPaths(container_id[r]) \subseteq DOMAIN disk
        /\ Member("old_root", DIRTYPE) \in Contents(upper_path(container_id[r]))

\* C16: when a run finds the image root present and skips the extraction, the
\* image root holds every member of the archive that is neither a character
\* nor a block device, and nothing else.
C16_SkippedMeansComplete ==
    [][\A r \in Runs :
        (level[r] = 4 /\ cpc[r] = "chk_image" /\ cpc'[r] = "mk_upper") =>
            Contents(ImageRoot(image_name[r])) =
                { m \in ArchiveMembers(image_name[r]) :
                    m.type # CHRTYPE /\ m.type # BLKTYPE }
      ]_vars

\* The places of a parent in run.
ParentPcs == { "start", "print_pid", "wait", "done" }

\* C17: a parent is only ever in run's own statements and a child only in
\* contain, in the exec'd program or ended; a child leaves contain only by the
\* exec or by ending; a step of a child changes nothing a parent holds (its
\* place, pid, status, output), and a step of a parent after the fork changes
\* nothing of any child, mount table or the disk; the pid a parent holds is
\* that of the child it forked, the program runs under it, and the wait
\* returns only when that child has ended, with that child's status.
C17_RolesNeverCross ==
    /\ [](\A r \in Runs :
            /\ ppc[r] \in ParentPcs
            /\ cpc[r] \in {"none", "running", "exited"} \cup ContainPcs
            /\ (ppc[r] = "start") <=> (cpc[r] = "none")
            /\ ppc[r] # "start" => pid[r] = r
            /\ ppc[r] = "done" => cpc[r] = "exited")
    /\ [][\A r \in Runs :
            /\ (cpc[r] # "none" /\ cpc'[r] # cpc[r]) =>
                /\ ppc' = ppc /\ pid' = pid /\ status' = status /\ out' = out
                /\ cpc[r] \in ContainPcs =>
                    \/ cpc'[r] \in ContainPcs
                    \/ cpc[r] = "exec" /\ cpc'[r] = "running"
                    \/ cpc'[r] = "exited"
            /\ (ppc[r] # "start" /\ ppc'[r] # ppc[r]) =>
                /\ cpc' = cpc /\ exit_code' = exit_code /\ done' = done
                /\ nsMounts' = nsMounts /\ dev' = dev /\ hostMounts' = hostMounts
                /\ root' = root /\ cwd' = cwd /\ disk' = disk
            /\ (ppc[r] = "wait" /\ ppc'[r] = "done") =>
                /\ cpc[r] = "exited"
                /\ status'[r] = exit_code[r] * 256
                /\ out'[r] = Append(out[r], << "exited with status", r, status'[r] >>)
       ]_vars

\* A parent has reported its child, which ended with another code than a
\* child that ended before and whose parent still waits.
C17_Witness ==
    \E r1, r2 \in Runs :
        /\ ppc[r1] = "done" /\ ppc[r2] = "wait" /\ cpc[r2] = "exited"
        /\ exit_code[r1] # exit_code[r2]
        /\ status[r1] = exit_code[r1] * 256

\* The tmpfs mounts the child of run r has on its dev directory, before the
\* pivot (under new_root) or after it (under /).
DevTmpfs(r) ==
    { m \in nsMounts[r] :
        /\ m.fstype = "tmpfs"
        /\ m.target \in { Join(new_root[r], << "dev" >>), << "dev" >> } }

\* C18: a step that creates entries under dev is taken by a child whose dev
\* directory has the tmpfs mounted on it, and leaves the disk as it is; a child
\* that holds such entries has the tmpfs; no upper directory ever holds a
\* symbolic link, a device node or an entry under dev; and a child that ends
\* at the tmpfs mount has created none.
C18_DevInTmpfs ==
    /\ [][\A r \in Runs :
            /\ dev'[r] \ dev[r] # {} =>
                /\ cpc[r] \in {"mk_pts", "makedev"}
                /\ DevTmpfs(r) # {}
                /\ disk' = disk
            /\ (cpc[r] = "mount_dev" /\ cpc'[r] = "exited") =>
                dev[r] = {} /\ dev'[r] = {} /\ disk' = disk
       ]_vars
    /\ [](\A r \in Runs :
            /\ dev[r] # {} => DevTmpfs(r) # {}
            /\ (level[r] = 4 /\ cpc[r] \in {"mount_proc", "mount_sys", "mount_dev"}) =>
                dev[r] = {}
            /\ \A e \in Contents(container_dir \o << "overlay", container_id[r], "upper" >>) :
                /\ e.type \notin {CHRTYPE, BLKTYPE, SYMTYPE}
                /\ e.name \notin
                    { "dev/pts", "dev/stdin", "dev/stdout", "dev/stderr", "dev/fd",
                      "dev/null", "dev/zero", "dev/random", "dev/urandom",
                      "dev/console", "dev/tty", "dev/full" })

\* A child has the devpts directory, the links and the nodes in its tmpfs, and
\* its upper directory holds the old_root directory only.
C18_Witness ==
    \E r \in Runs :
        /\ level[r] = 4 /\ cpc[r] = "pivot_root"
        /\ Cardinality(dev[r]) = 12
        /\ DevTmpfs(r) # {}
        /\ Contents(upper_path(container_id[r])) = { Member("old_root", DIRTYPE) }

\* The merged root of the child of run r shows an entry old_root.
ShipsOldRoot(r) == \E e \in EntriesAt(r, new_root[r]) : e.name = "old_root"

\* C19: a child at the creation of old_root whose merged root shows an entry
\* old_root moves only by ending with exit code 1, the disk unchanged; a child
\* that goes on to pivot_root found no such entry and has put the directory in
\* its own upper layer in that step; and a child at pivot_root or past it, up
\* to the rmdir, has an image without old_root and its own old_root directory.
C19_OldRootNotChecked ==
    /\ [][\A r \in Runs :
            /\ (cpc[r] = "mk_old_root" /\ ShipsOldRoot(r) /\ cpc'[r] # cpc[r]) =>
                /\ cpc'[r] = "exited"
                /\ exit_code'[r] = 1
                /\ disk' = disk
            /\ (cpc[r] = "mk_old_root" /\ cpc'[r] = "pivot_root") =>
                /\ ~ShipsOldRoot(r)
                /\ Contents(upper_path(container_id[r]))' =
                        Contents(upper_path(container_id[r]))
                            \cup { Member("old_root", DIRTYPE) }
       ]_vars
    /\ [](\A r \in Runs :
            (level[r] = 4 /\ cpc[r] \in {"pivot_root", "chdir", "umount", "rmdir"}) =>
                /\ \A e \in Contents(ImageRoot(image_name[r])) : e.name # "old_root"
                /\ Member("old_root", DIRTYPE) \in Contents(upper_path(container_id[r]))
                /\ done[r][5] = "mk_old_root")

\* A child has built and populated a root whose image ships old_root and is
\* at the creation of old_root.
C19_Witness ==
    \E r \in Runs :
        /\ level[r] = 4 /\ cpc[r] = "mk_old_root"
        /\ Member("old_root", DIRTYPE) \in Contents(ImageRoot(image_name[r]))
        /\ ShipsOldRoot(r)
        /\ Cardinality(dev[r]) = 12

====
